---- MODULE Spec2Model ----
(***************************************************************************)
(* Model of the ECC608 controller of src/src/ecc.rs: the retrying command  *)
(* executor (send_command_retries), the paired configuration register      *)
(* accessors (get/set_slot_config, get/set_key_config) and the three-step  *)
(* sign sequence, run against a device that keeps 4-byte configuration     *)
(* registers and a volatile message-digest buffer.                         *)
(*                                                                         *)
(* Two specifications:                                                     *)
(*   Spec      a controller session: one public call on a device in some   *)
(*             initial state (any of the modelled operations), followed by *)
(*             any number of calls that only read the device registers     *)
(*             (get_slot_config, get_key_config).                          *)
(*   SpecExec  one invocation of send_command_retries with any command,    *)
(*             sleep flag and retry budget, against an unconstrained       *)
(*             transport and device.                                       *)
(***************************************************************************)
EXTENDS Integers, Sequences, FiniteSets, TLC

\* ---------------------------------------------------------------- constants
MAX_SLOT == 15

CMD_RETRIES == 10

\* ------------------------------------------------------------------- bounds
\* slot arguments range over 0 .. MAX_SLOT + ExtraSlots (the invalid ones last)
ExtraSlots == 2

\* initial device contents are drawn from NumSeeds register images
NumSeeds == 2

\* in Spec, at most MaxFaults retried faults (transport failure or recoverable
\* device error) are injected into one public call; SpecExec has no such limit
MaxFaults == 1

SlotArgs == 0 .. (MAX_SLOT + ExtraSlots)

Seeds == 0 .. (NumSeeds - 1)

\* 16-bit configuration values: 0x1234, 0xFF00, 0x00A5
ConfigValues == {4660, 65280, 165}

\* messages handed to sign
Messages == {<< >>, <<1, 2>>}

Budgets == 1 .. CMD_RETRIES

\* ------------------------------------------------------------ byte helpers
put_u16_le(v) == <<v % 256, (v \div 256) % 256>>

get_u16_le(b) == b[1] + 256 * b[2]

\* bytes.split_at(2)
split_at_2(bytes) == [s0 |-> SubSeq(bytes, 1, 2), s1 |-> SubSeq(bytes, 3, Len(bytes))]

RECURSIVE SumSeq(_)
SumSeq(s) == IF s = << >> THEN 0 ELSE Head(s) + SumSeq(Tail(s))

\* Sha256::digest(data): a fixed-length digest that is a function of the data
Sha256(data) == <<(31 * SumSeq(data) + 7 * Len(data) + 1) % 256, (Len(data) + 99) % 256>>

\* ---------------------------------------------------------------- commands
NoCmd == [op |-> "none", bank |-> "", idx |-> 0, p |-> 0, data |-> << >>]

EccCommand_read(read_32, a) ==
    [op |-> "read", bank |-> a.bank, idx |-> a.idx, p |-> IF read_32 THEN 1 ELSE 0, data |-> << >>]

EccCommand_write(a, bytes) ==
    [op |-> "write", bank |-> a.bank, idx |-> a.idx, p |-> 0, data |-> bytes]

EccCommand_random == [op |-> "random", bank |-> "", idx |-> 0, p |-> 0, data |-> << >>]

EccCommand_nonce(target, bytes) ==
    [op |-> "nonce", bank |-> target, idx |-> 0, p |-> 0, data |-> bytes]

EccCommand_sign(source, key_slot) ==
    [op |-> "sign", bank |-> source, idx |-> 0, p |-> key_slot, data |-> << >>]

\* --------------------------------------------------------------- addresses
\* Address::slot_config / Address::key_config: slot k and slot k^1 share the
\* register slot \div 2 of their bank; a slot above MAX_SLOT is rejected
Address_config(bank, slot) ==
    [ok |-> slot <= MAX_SLOT, bank |-> bank, idx |-> slot \div 2]

\* Address::config(block, offset): word `offset` of 32-byte block `block` of
\* the configuration zone
Address_config_block(block, offset) ==
    [ok |-> block <= 3 /\ offset <= 7, bank |-> "config", idx |-> 8 * block + offset]

Address_slot_config(slot) == Address_config("slot", slot)

Address_key_config(slot) == Address_config("key", slot)

\* ----------------------------------------------------------------- results
Ok(val) == [ok |-> TRUE, err |-> "", code |-> "", val |-> val]

Err(e, c) == [ok |-> FALSE, err |-> e, code |-> c, val |-> << >>]

NoResult == Err("none", "")

Error_timeout == Err("Timeout", "")

Error_ecc(c) == Err("Ecc", c)

Error_transport == Err("Transport", "")

Error_decode == Err("Decode", "")

Error_invalid_address == Err("InvalidAddress", "")

\* --------------------------------------------------------------- responses
\* device error codes and their static classification
RecoverableCodes == {"CrcError"}

FatalCodes == {"ExecError"}

ErrCodes == RecoverableCodes \cup FatalCodes

is_recoverable(c) == c \in RecoverableCodes

RespData(bytes) == [kind |-> "Data", code |-> "", data |-> bytes]

RespError(c) == [kind |-> "Error", code |-> c, data |-> << >>]

RespGarbled == [kind |-> "Garbled", code |-> "", data |-> << >>]

NoResp == [kind |-> "none", code |-> "", data |-> << >>]

\* ------------------------------------------------------------------ buffer
\* the shared buffer is a sequence of items: the flag byte, the encoded
\* command, or the bytes of a received response
put_command_flag == 3

FlagItem == [tag |-> "flag", flag |-> put_command_flag, cmd |-> NoCmd, resp |-> NoResp]

CmdItem(c) == [tag |-> "cmd", flag |-> 0, cmd |-> c, resp |-> NoResp]

RespItem(r) == [tag |-> "resp", flag |-> 0, cmd |-> NoCmd, resp |-> r]

\* mutant: the buffer is not cleared before the frame is written
FrameInto_noclear(b, c) == Append(Append(b, FlagItem), CmdItem(c))

\* buf.clear(); buf.put_u8(flag); command.bytes_into(&mut buf)
FrameInto(b, c) == Append(Append(<< >>, FlagItem), CmdItem(c))

\* EccResponse::from_bytes(&buf[..])
EccResponse_from_bytes(b) ==
    IF Len(b) = 1 /\ b[1].tag = "resp" THEN b[1].resp ELSE RespGarbled

\* ------------------------------------------------------------ trace events
WakeEv(ok) ==
    [ev |-> "wake", ok |-> ok, cmd |-> NoCmd, frame |-> << >>, resp |-> NoResp]

XferEv(ok, c, f, r) ==
    [ev |-> "xfer", ok |-> ok, cmd |-> c, frame |-> f, resp |-> r]

SleepEv ==
    [ev |-> "sleep", ok |-> TRUE, cmd |-> NoCmd, frame |-> << >>, resp |-> NoResp]

IsXfer(e) == e.ev = "xfer"

Xfers(t) == SelectSeq(t, IsXfer)

VARIABLES
    pc,         \* position of the controller: idle (new session), ready (between
                \* calls), loop, xfer, handle, ret (executor returned), done
    call,       \* the public call in progress: [op, slot, v, data, zone]
    stage,      \* the step of the public call whose command is being executed
    cmd,        \* send_command_retries: command
    sleep,      \* send_command_retries: sleep flag
    retries,    \* send_command_retries: retry budget
    retry,      \* send_command_retries: loop index
    buf,        \* send_command_retries: the shared buffer
    result,     \* result of the last returned function
    trace,      \* transport events of the public call in progress
    regs,       \* device: configuration registers, regs[bank][idx] = 4 bytes
    digestBuf,  \* device: volatile message-digest buffer (<< >> when empty)
    regs0,      \* the registers as they were when the public call began
    lastSet,    \* the last successful set_*_config of the session
    faults,     \* retried faults injected into the call so far
    cap,        \* limit on faults for this behaviour
    rival       \* a second controller on the same device, in set_slot_config

vars == <<pc, call, stage, cmd, sleep, retries, retry, buf, result, trace,
          regs, digestBuf, regs0, lastSet, faults, cap, rival>>

execVars == <<cmd, sleep, retries, retry, buf>>

Banks == {"slot", "key"}

RegIdx == 0 .. (MAX_SLOT \div 2)

NoCall == [op |-> "none", slot |-> 0, v |-> 0, data |-> << >>, zone |-> ""]

\* no second controller
NoRival == [pc |-> "none", slot |-> 0, v |-> 0, bytes |-> << >>, readAt |-> "", writeAt |-> ""]

NoSet == [bank |-> "", slot |-> 0, v |-> 0]

\* the register image a device starts with: every byte position differs
InitWord(bank, idx, seed) ==
    LET base == (IF bank = "slot" THEN 0 ELSE 128) + 32 * (seed % 4) + 4 * idx
    IN  <<base, base + 1, base + 2, base + 3>>

InitRegs(seed) == [b \in Banks |-> [i \in RegIdx |-> InitWord(b, i, seed)]]

\* ------------------------------------------------------------------ device
\* the words of the configuration zone that are modelled: block 0 and the word
\* at block 2, offset 5
ConfigIdx == (0 .. 7) \cup {21}

\* a 32-byte read needs the whole block of the addressed word
ValidAddr(c) ==
    /\ \/ c.bank \in Banks /\ c.idx \in RegIdx
       \/ c.bank = "config" /\ c.idx \in ConfigIdx
    /\ (c.op = "read" /\ c.p = 1) =>
          \A k \in 0 .. 7 :
            8 * (c.idx \div 8) + k \in (IF c.bank = "config" THEN ConfigIdx ELSE RegIdx)

\* the 32 bytes of the block that holds word idx
Block32(words, idx) ==
    LET b == 8 * (idx \div 8)
    IN  words[b] \o words[b + 1] \o words[b + 2] \o words[b + 3]
        \o words[b + 4] \o words[b + 5] \o words[b + 6] \o words[b + 7]

\* whether the device can execute the command rather than answer with an error
DeviceCanExecute(c, rg, dg) ==
    CASE c.op \in {"read", "write"} -> ValidAddr(c)
      [] c.op = "sign" -> dg # << >>
      [] OTHER -> TRUE

\* the payload of the Data response to an executed command
DevicePayload(c, rg, dg) ==
    CASE c.op = "read" -> IF c.p = 1 THEN Block32(rg[c.bank], c.idx) ELSE rg[c.bank][c.idx]
      [] c.op = "random" -> <<165, 90>>
      [] c.op = "sign" -> <<c.p>> \o dg
      [] OTHER -> <<0>>

DeviceRegsAfter(c, rg) ==
    IF c.op = "write" THEN [rg EXCEPT ![c.bank][c.idx] = c.data] ELSE rg

DeviceDigestAfter(c, dg) ==
    IF c.op = "nonce" THEN c.data ELSE dg

\* what a completed exchange can bring back: the Data response of the executed
\* command, a device error, or bytes that do not decode
DeviceResponses(c, rg, dg) ==
    (IF DeviceCanExecute(c, rg, dg) THEN {RespData(DevicePayload(c, rg, dg))} ELSE {})
    \cup {RespError(e) : e \in ErrCodes}
    \cup {RespGarbled}

\* ------------------------------------------------- send_command_retries
\* mutant: the range taken as 0..=retries
InLoop_inclusive(i, n) == i <= n

\* for retry in 0..retries
InLoop(i, n) == i < n

\* mutant: a transport failure leaves the loop at once
OnTransportError_break(i, n) == "break"

\* the branch taken on a transport failure of send_recv_buf
OnTransportError(i, n) == IF i = n THEN "break" ELSE "continue"

\* mutant: a Data response is returned only from the last attempt
Match_data_last_only(r, i, n) ==
    CASE r.kind = "Data" /\ i + 1 = n -> "ok"
      [] r.kind = "Data" -> "continue"
      [] r.kind = "Error" /\ is_recoverable(r.code) /\ i < n -> "continue"
      [] OTHER -> "err"

\* mutant: the recoverability of the error is not consulted
Match_retry_any_error(r, i, n) ==
    CASE r.kind = "Data" -> "ok"
      [] r.kind = "Error" /\ i < n -> "continue"
      [] OTHER -> "err"

\* the match on a decoded response
Match(r, i, n) ==
    CASE r.kind = "Data" -> "ok"
      [] r.kind = "Error" /\ is_recoverable(r.code) /\ i < n -> "continue"
      [] OTHER -> "err"

\* whether the failure of send_wake ends the call (the ? operator)
WakePropagates(ok) == ~ok

\* mutant: the wake signal is sent once, ahead of the first attempt only
WakeSent_first_only(i) == i = 0

\* send_wake is called in the body of the loop, on every attempt
WakeSent(i) == TRUE

\* mutant: a decode failure is retried like a transport failure
OnDecodeError_retry(i, n) == IF i + 1 < n THEN "continue" ELSE "return"

\* the ? applied to the result of EccResponse::from_bytes
OnDecodeError(i, n) == "return"

\* mutant: the sleep signal is sent whatever the flag
SleepSent_always(s, r) == TRUE

\* if sleep { self.transport.send_sleep() }, ahead of the match on the response
SleepSent(s, r) == s

\* entry of send_command_retries(command, sleep, retries)
Exec(c, s, n) ==
    /\ cmd' = c
    /\ sleep' = s
    /\ retries' = n
    /\ retry' = 0
    /\ buf' = << >>
    /\ pc' = "loop"

\* the loop head, framing and send_wake of one attempt
send_wake ==
    /\ pc = "loop"
    /\ InLoop(retry, retries)
    /\ buf' = FrameInto(buf, cmd)
    /\ IF WakeSent(retry)
         THEN \E ok \in BOOLEAN :
                /\ trace' = Append(trace, WakeEv(ok))
                /\ IF WakePropagates(ok)
                     THEN pc' = "ret" /\ result' = Error_transport
                     ELSE pc' = "xfer" /\ result' = result
         ELSE pc' = "xfer" /\ UNCHANGED <<trace, result>>
    /\ UNCHANGED <<call, stage, cmd, sleep, retries, retry, regs, digestBuf,
                   regs0, lastSet, faults, cap, rival>>

\* the loop has run out of attempts: Err(Error::timeout())
loop_exit ==
    /\ pc = "loop"
    /\ ~InLoop(retry, retries)
    /\ pc' = "ret"
    /\ result' = Error_timeout
    /\ UNCHANGED <<call, stage, execVars, trace, regs, digestBuf, regs0,
                   lastSet, faults, cap, rival>>

\* send_recv_buf and the handling of its failure
send_recv_buf ==
    /\ pc = "xfer"
    /\ \/ \* the exchange fails; the device may or may not have executed the command
          /\ faults < cap
          /\ \E executed \in {FALSE, DeviceCanExecute(cmd, regs, digestBuf)} :
               /\ regs' = IF executed THEN DeviceRegsAfter(cmd, regs) ELSE regs
               /\ digestBuf' = IF executed THEN DeviceDigestAfter(cmd, digestBuf)
                                           ELSE digestBuf
          /\ trace' = Append(trace, XferEv(FALSE, cmd, buf, NoResp))
          /\ faults' = faults + 1
          /\ IF OnTransportError(retry, retries) = "break"
               THEN pc' = "ret" /\ result' = Error_timeout /\ retry' = retry
               ELSE pc' = "loop" /\ result' = result /\ retry' = retry + 1
          /\ UNCHANGED buf
       \/ \* the exchange completes and the response bytes replace the frame
          \E r \in DeviceResponses(cmd, regs, digestBuf) :
               /\ (r.kind = "Error" /\ is_recoverable(r.code)) => faults < cap
               /\ faults' = IF r.kind = "Error" /\ is_recoverable(r.code)
                              THEN faults + 1 ELSE faults
               /\ regs' = IF r.kind = "Data" THEN DeviceRegsAfter(cmd, regs) ELSE regs
               /\ digestBuf' = IF r.kind = "Data" THEN DeviceDigestAfter(cmd, digestBuf)
                                                  ELSE digestBuf
               /\ trace' = Append(trace, XferEv(TRUE, cmd, buf, r))
               /\ buf' = <<RespItem(r)>>
               /\ pc' = "handle"
               /\ UNCHANGED <<result, retry>>
    /\ UNCHANGED <<call, stage, cmd, sleep, retries, regs0, lastSet, cap, rival>>

\* decode, optional sleep, and the match on the response
handle_response ==
    /\ pc = "handle"
    /\ LET r == EccResponse_from_bytes(buf) IN
       IF r.kind = "Garbled"
         THEN /\ IF OnDecodeError(retry, retries) = "return"
                   THEN pc' = "ret" /\ result' = Error_decode /\ retry' = retry
                   ELSE pc' = "loop" /\ result' = result /\ retry' = retry + 1
              /\ UNCHANGED <<trace, digestBuf>>
         ELSE /\ trace' = IF SleepSent(sleep, r) THEN Append(trace, SleepEv) ELSE trace
              /\ digestBuf' = IF SleepSent(sleep, r) THEN << >> ELSE digestBuf
              /\ LET m == Match(r, retry, retries) IN
                 CASE m = "ok" ->
                        pc' = "ret" /\ result' = Ok(r.data) /\ retry' = retry
                   [] m = "continue" ->
                        pc' = "loop" /\ result' = result /\ retry' = retry + 1
                   [] OTHER ->
                        pc' = "ret" /\ result' = Error_ecc(r.code) /\ retry' = retry
    /\ UNCHANGED <<call, stage, cmd, sleep, retries, buf, regs, regs0, lastSet,
                   faults, cap, rival>>

\* ------------------------------------------------------------ SpecExec
ExecCommands ==
    { EccCommand_read(FALSE, Address_slot_config(0)),
      EccCommand_write(Address_slot_config(0), <<1, 2, 3, 4>>),
      EccCommand_sign("MessageDigest", 0) }

InitExec ==
    /\ pc = "loop"
    /\ call = [op |-> "send_command_retries", slot |-> 0, v |-> 0, data |-> << >>, zone |-> ""]
    /\ stage = "exec"
    /\ cmd \in ExecCommands
    /\ sleep \in BOOLEAN
    /\ retries \in Budgets
    /\ retry = 0
    /\ buf = << >>
    /\ result = NoResult
    /\ trace = << >>
    /\ regs = InitRegs(0)
    /\ digestBuf \in {<< >>, Sha256(<<1, 2>>)}
    /\ regs0 = regs
    /\ lastSet = NoSet
    /\ faults = 0
    /\ rival = NoRival
    /\ cap = CMD_RETRIES

NextExec == send_wake \/ loop_exit \/ send_recv_buf \/ handle_response

SpecExec == InitExec /\ [][NextExec]_vars

\* the call runs on its caller's thread, which keeps taking steps until it returns
SpecExecFair == InitExec /\ [][NextExec]_vars /\ WF_vars(NextExec)

\* ------------------------------------------------------- public operations
\* send_command(command)
send_command(c) == Exec(c, TRUE, CMD_RETRIES)

\* read(read_32, address)
read(read_32, a) == send_command(EccCommand_read(read_32, a))

\* write(address, bytes)
write(a, bytes) == send_command(EccCommand_write(a, bytes))

\* mutant: the result of the address resolution is not examined
AddressRejected_never(a) == FALSE

\* the ? applied to the result of Address::slot_config / Address::key_config
AddressRejected(a) == ~a.ok

\* mutant: the low half is returned whatever the parity of the slot
SelectHalf_low(slot, bytes) == split_at_2(bytes).s0

\* match slot & 1 == 0 { true => s0, false => s1 }
SelectHalf(slot, bytes) ==
    IF slot % 2 = 0 THEN split_at_2(bytes).s0 ELSE split_at_2(bytes).s1

\* mutant: the unselected half is taken from the wrong side of the split
NewBytes_swapped(slot, bytes, v) ==
    IF slot % 2 = 0
      THEN put_u16_le(v) \o split_at_2(bytes).s0
      ELSE split_at_2(bytes).s1 \o put_u16_le(v)

\* mutant: the other half is not taken from the bytes read but zeroed
NewBytes_fresh(slot, bytes, v) ==
    IF slot % 2 = 0
      THEN put_u16_le(v) \o <<0, 0>>
      ELSE <<0, 0>> \o put_u16_le(v)

\* the register image written back by set_slot_config / set_key_config
NewBytes(slot, bytes, v) ==
    IF slot % 2 = 0
      THEN put_u16_le(v) \o split_at_2(bytes).s1
      ELSE split_at_2(bytes).s0 \o put_u16_le(v)

GetOps == {"get_slot_config", "get_key_config"}

SetOps == {"set_slot_config", "set_key_config"}

BankOf(op) == IF op \in {"get_slot_config", "set_slot_config"} THEN "slot" ELSE "key"

\* a public call begins: its transport trace is empty
BeginCall(c) ==
    /\ call' = c
    /\ trace' = << >>
    /\ regs0' = regs
    /\ faults' = 0

\* get_slot_config / get_key_config up to the read
get_config(op, bank) ==
    /\ pc \in {"idle", "ready"}
    /\ \E slot \in SlotArgs :
         LET a == Address_config(bank, slot) IN
         /\ BeginCall([op |-> op, slot |-> slot, v |-> 0, data |-> << >>, zone |-> ""])
         /\ IF AddressRejected(a)
              THEN /\ pc' = "done"
                   /\ result' = Error_invalid_address
                   /\ stage' = "none"
                   /\ UNCHANGED execVars
              ELSE /\ read(FALSE, a)
                   /\ result' = NoResult
                   /\ stage' = "read"
    /\ UNCHANGED <<regs, digestBuf, lastSet, cap, rival>>

get_slot_config == get_config("get_slot_config", "slot")

get_key_config == get_config("get_key_config", "key")

\* get_slot_config / get_key_config after the read has returned
get_config_ret ==
    /\ pc = "ret"
    /\ call.op \in GetOps
    /\ result' = IF result.ok
                   THEN Ok(<<get_u16_le(SelectHalf(call.slot, result.val))>>)
                   ELSE result
    /\ pc' = "done"
    /\ UNCHANGED <<call, stage, execVars, trace, regs, digestBuf, regs0,
                   lastSet, faults, cap, rival>>

\* set_slot_config / set_key_config up to the read
set_config(op, bank) ==
    /\ pc = "idle"
    /\ \E slot \in SlotArgs, v \in ConfigValues :
         LET a == Address_config(bank, slot) IN
         /\ BeginCall([op |-> op, slot |-> slot, v |-> v, data |-> << >>, zone |-> ""])
         /\ IF AddressRejected(a)
              THEN /\ pc' = "done"
                   /\ result' = Error_invalid_address
                   /\ stage' = "none"
                   /\ UNCHANGED execVars
              ELSE /\ read(FALSE, a)
                   /\ result' = NoResult
                   /\ stage' = "read"
    /\ lastSet' = NoSet
    /\ UNCHANGED <<regs, digestBuf, cap, rival>>

set_slot_config == set_config("set_slot_config", "slot")

set_key_config == set_config("set_key_config", "key")

\* mutant: the result of the read is not examined and the write is sent anyway
set_config_read_ret_ignores_failure ==
    /\ pc = "ret"
    /\ call.op \in SetOps
    /\ stage = "read"
    /\ write(Address_config(BankOf(call.op), call.slot),
             NewBytes(call.slot,
                      IF result.ok THEN result.val ELSE <<0, 0, 0, 0>>,
                      call.v))
    /\ stage' = "write"
    /\ result' = NoResult
    /\ UNCHANGED <<call, trace, regs, digestBuf, regs0, lastSet, faults, cap, rival>>

\* set_*_config after the read has returned: merge and write, or give up
set_config_read_ret ==
    /\ pc = "ret"
    /\ call.op \in SetOps
    /\ stage = "read"
    /\ IF result.ok
         THEN /\ write(Address_config(BankOf(call.op), call.slot),
                       NewBytes(call.slot, result.val, call.v))
              /\ stage' = "write"
              /\ result' = NoResult
         ELSE /\ pc' = "done"
              /\ UNCHANGED <<stage, result, execVars>>
    /\ UNCHANGED <<call, trace, regs, digestBuf, regs0, lastSet, faults, cap, rival>>

\* set_*_config after the write has returned
set_config_write_ret ==
    /\ pc = "ret"
    /\ call.op \in SetOps
    /\ stage = "write"
    /\ result' = IF result.ok THEN Ok(<< >>) ELSE result
    /\ lastSet' = IF result.ok
                    THEN [bank |-> BankOf(call.op), slot |-> call.slot, v |-> call.v]
                    ELSE lastSet
    /\ pc' = "done"
    /\ UNCHANGED <<call, stage, execVars, trace, regs, digestBuf, regs0, faults, cap, rival>>

\* mutant: the result of a step of sign is dropped without being examined
SignStepFailed_never(r) == FALSE

\* the ? applied to the result of a step of sign
SignStepFailed(r) == ~r.ok

\* mutant: no step of sign lets the device sleep
SignSleep_never(step) == FALSE

\* mutant: the random step goes through the public random(), which sleeps
SignSleep_random_sleeps(step) == step \in {"random", "sign"}

\* the sleep flags and retry budgets of the three steps of sign
SignSleep(step) == step = "sign"

SignRetries(step) == 1

\* sign: the random command
sign ==
    /\ pc = "idle"
    /\ \E key_slot \in SlotArgs, data \in Messages :
         BeginCall([op |-> "sign", slot |-> key_slot, v |-> 0, data |-> data, zone |-> ""])
    /\ Exec(EccCommand_random, SignSleep("random"), SignRetries("random"))
    /\ stage' = "random"
    /\ result' = NoResult
    /\ UNCHANGED <<regs, digestBuf, lastSet, cap, rival>>

\* sign: the digest and the nonce command
sign_random_ret ==
    /\ pc = "ret"
    /\ call.op = "sign"
    /\ stage = "random"
    /\ IF SignStepFailed(result)
         THEN /\ pc' = "done"
              /\ UNCHANGED <<stage, result, execVars>>
         ELSE /\ Exec(EccCommand_nonce("MessageDigest", Sha256(call.data)),
                      SignSleep("nonce"), SignRetries("nonce"))
              /\ stage' = "nonce"
              /\ result' = NoResult
    /\ UNCHANGED <<call, trace, regs, digestBuf, regs0, lastSet, faults, cap, rival>>

\* sign: the sign command
sign_nonce_ret ==
    /\ pc = "ret"
    /\ call.op = "sign"
    /\ stage = "nonce"
    /\ IF SignStepFailed(result)
         THEN /\ pc' = "done"
              /\ UNCHANGED <<stage, result, execVars>>
         ELSE /\ Exec(EccCommand_sign("MessageDigest", call.slot),
                      SignSleep("sign"), SignRetries("sign"))
              /\ stage' = "sign"
              /\ result' = NoResult
    /\ UNCHANGED <<call, trace, regs, digestBuf, regs0, lastSet, faults, cap, rival>>

\* sign: the result of the sign command is the result of the call
sign_sign_ret ==
    /\ pc = "ret"
    /\ call.op = "sign"
    /\ stage = "sign"
    /\ pc' = "done"
    /\ UNCHANGED <<call, stage, execVars, result, trace, regs, digestBuf, regs0,
                   lastSet, faults, cap, rival>>

\* the public call has returned to its caller; the controller keeps nothing of
\* it, and the session goes on with calls that only read the device
call_return ==
    /\ pc = "done"
    /\ pc' = "ready"
    /\ call' = NoCall
    /\ stage' = "none"
    /\ cmd' = NoCmd
    /\ sleep' = FALSE
    /\ retries' = 0
    /\ retry' = 0
    /\ buf' = << >>
    /\ result' = NoResult
    /\ trace' = << >>
    /\ regs0' = regs
    /\ faults' = 0
    /\ UNCHANGED <<regs, digestBuf, lastSet, cap, rival>>

\* ------------------------------------------------------------------- Spec
Init ==
    /\ pc = "idle"
    /\ call = NoCall
    /\ stage = "none"
    /\ cmd = NoCmd
    /\ sleep = FALSE
    /\ retries = 0
    /\ retry = 0
    /\ buf = << >>
    /\ result = NoResult
    /\ trace = << >>
    /\ \E s \in Seeds : regs = InitRegs(s)
    /\ digestBuf = << >>
    /\ regs0 = regs
    /\ lastSet = NoSet
    /\ faults = 0
    /\ rival = NoRival
    /\ cap = MaxFaults

Next ==
    \/ get_slot_config
    \/ get_key_config
    \/ set_slot_config
    \/ set_key_config
    \/ sign
    \/ send_wake
    \/ loop_exit
    \/ send_recv_buf
    \/ handle_response
    \/ get_config_ret
    \/ set_config_read_ret
    \/ set_config_write_ret
    \/ sign_random_ret
    \/ sign_nonce_ret
    \/ sign_sign_ret
    \/ call_return

Spec == Init /\ [][Next]_vars

\* ------------------------------------------------ one set call, any faults
\* A set_slot_config / set_key_config call that has just issued its read, on a
\* transport that may fail every one of the CMD_RETRIES attempts.
InitSetFaulty ==
    /\ pc = "loop"
    /\ \E op \in SetOps :
         /\ call = [op |-> op, slot |-> MAX_SLOT, v |-> 165, data |-> << >>, zone |-> ""]
         /\ cmd = EccCommand_read(FALSE, Address_config(BankOf(op), MAX_SLOT))
    /\ stage = "read"
    /\ sleep = TRUE
    /\ retries = CMD_RETRIES
    /\ retry = 0
    /\ buf = << >>
    /\ result = NoResult
    /\ trace = << >>
    /\ regs = InitRegs(0)
    /\ digestBuf = << >>
    /\ regs0 = regs
    /\ lastSet = NoSet
    /\ faults = 0
    /\ rival = NoRival
    /\ cap = CMD_RETRIES

NextSetFaulty ==
    \/ send_wake
    \/ loop_exit
    \/ send_recv_buf
    \/ handle_response
    \/ set_config_read_ret
    \/ set_config_write_ret

SpecSetFaulty == InitSetFaulty /\ [][NextSetFaulty]_vars

\* ------------------------------------------- get_locked and get_serial
Zones == {"Config", "Data"}

\* mutant: the two lock bytes are taken the other way round
Locked_swapped(zone, bytes) ==
    LET s1 == split_at_2(bytes).s1
    IN  IF zone = "Config" THEN s1[1] # 85 ELSE s1[2] # 85

\* get_locked: the match on the zone over the second half of the word read
Locked(zone, bytes) ==
    LET s1 == split_at_2(bytes).s1
    IN  IF zone = "Config" THEN s1[2] # 85 ELSE s1[1] # 85

\* mutant: the first nine bytes of the window
Serial_contiguous(bytes) == SubSeq(bytes, 1, 9)

\* get_serial: bytes.slice(0..=3) followed by bytes.slice(8..=12)
Serial(bytes) == SubSeq(bytes, 1, 4) \o SubSeq(bytes, 9, 13)

\* get_locked up to the read
get_locked ==
    /\ pc \in {"idle", "ready"}
    /\ \E zone \in Zones :
         LET a == Address_config_block(2, 5) IN
         /\ BeginCall([op |-> "get_locked", slot |-> 0, v |-> 0, data |-> << >>, zone |-> zone])
         /\ IF AddressRejected(a)
              THEN /\ pc' = "done"
                   /\ result' = Error_invalid_address
                   /\ stage' = "none"
                   /\ UNCHANGED execVars
              ELSE /\ read(FALSE, a)
                   /\ result' = NoResult
                   /\ stage' = "read"
    /\ UNCHANGED <<regs, digestBuf, lastSet, cap, rival>>

\* get_locked after the read has returned
get_locked_ret ==
    /\ pc = "ret"
    /\ call.op = "get_locked"
    /\ result' = IF result.ok THEN Ok(Locked(call.zone, result.val)) ELSE result
    /\ pc' = "done"
    /\ UNCHANGED <<call, stage, execVars, trace, regs, digestBuf, regs0,
                   lastSet, faults, cap, rival>>

\* get_serial up to the read
get_serial ==
    /\ pc \in {"idle", "ready"}
    /\ LET a == Address_config_block(0, 0) IN
         /\ BeginCall([op |-> "get_serial", slot |-> 0, v |-> 0, data |-> << >>, zone |-> ""])
         /\ IF AddressRejected(a)
              THEN /\ pc' = "done"
                   /\ result' = Error_invalid_address
                   /\ stage' = "none"
                   /\ UNCHANGED execVars
              ELSE /\ read(TRUE, a)
                   /\ result' = NoResult
                   /\ stage' = "read"
    /\ UNCHANGED <<regs, digestBuf, lastSet, cap, rival>>

\* get_serial after the read has returned
get_serial_ret ==
    /\ pc = "ret"
    /\ call.op = "get_serial"
    /\ result' = IF result.ok THEN Ok(Serial(result.val)) ELSE result
    /\ pc' = "done"
    /\ UNCHANGED <<call, stage, execVars, trace, regs, digestBuf, regs0,
                   lastSet, faults, cap, rival>>

\* configuration-zone images: block 0 either with every byte different (image
\* 0) or as the device lays it out, with 0x01 0x23 at bytes 0 and 1 and 0xEE at
\* byte 12
ZoneImages == 0 .. 2

Block0Word(image, i) ==
    IF image = 0
      THEN <<100 + 4 * i, 101 + 4 * i, 102 + 4 * i, 103 + 4 * i>>
      ELSE CASE i = 0 -> <<1, 35, 16 * image + 1, 16 * image + 2>>
             [] i = 3 -> <<238, 200 + image, 0, 0>>
             [] OTHER -> <<16 * image + 4 * i, 16 * image + 4 * i + 1,
                           16 * image + 4 * i + 2, 16 * image + 4 * i + 3>>

\* values of a lock byte: the unlocked sentinel 0x55 and two others
LockBytes == {85, 0, 170}

\* values of bytes 0 and 1 of the word that holds the lock bytes
UserBytes == {<<0, 0>>, <<85, 7>>}

InitZoneRegs(image, user, lockValue, lockConfig) ==
    [b \in Banks \cup {"config"} |->
        IF b = "config"
          THEN [i \in ConfigIdx |->
                   IF i = 21 THEN user \o <<lockValue, lockConfig>>
                             ELSE Block0Word(image, i)]
          ELSE InitRegs(0)[b]]

\* a transport that can fail every attempt is explored on one zone image
InitZone ==
    /\ pc = "idle"
    /\ call = NoCall
    /\ stage = "none"
    /\ cmd = NoCmd
    /\ sleep = FALSE
    /\ retries = 0
    /\ retry = 0
    /\ buf = << >>
    /\ result = NoResult
    /\ trace = << >>
    /\ \E image \in ZoneImages, user \in UserBytes, lv \in LockBytes, lc \in LockBytes :
         /\ regs = InitZoneRegs(image, user, lv, lc)
         /\ cap \in IF image = 1 /\ user = <<0, 0>> /\ lv = 85 /\ lc = 0
                      THEN {MaxFaults, CMD_RETRIES}
                      ELSE {MaxFaults}
    /\ digestBuf = << >>
    /\ regs0 = regs
    /\ lastSet = NoSet
    /\ faults = 0
    /\ rival = NoRival

NextZone ==
    \/ get_locked
    \/ get_serial
    \/ send_wake
    \/ loop_exit
    \/ send_recv_buf
    \/ handle_response
    \/ get_locked_ret
    \/ get_serial_ret
    \/ call_return

SpecZone == InitZone /\ [][NextZone]_vars

\* ------------------------------------ two controllers on one device
\* The slot that shares its register with slot: slot ^ 1.
Paired(slot) == IF slot % 2 = 0 THEN slot + 1 ELSE slot - 1

\* How far this controller's set call has got on the device: before its read
\* was answered, between its read and its write, or after its write.
MainPhase ==
    IF \E j \in 1 .. Len(trace) :
         trace[j].ev = "xfer" /\ trace[j].ok /\ trace[j].resp.kind = "Data"
         /\ trace[j].cmd.op = "write"
      THEN "after"
      ELSE IF \E j \in 1 .. Len(trace) :
                trace[j].ev = "xfer" /\ trace[j].ok /\ trace[j].resp.kind = "Data"
                /\ trace[j].cmd.op = "read"
             THEN "mid"
             ELSE "before"

\* the second controller's set_slot_config: its read is answered
rival_read ==
    /\ rival.pc = "idle"
    /\ LET a == Address_slot_config(rival.slot) IN
         /\ ~AddressRejected(a)
         /\ rival' = [rival EXCEPT !.pc = "read",
                                   !.bytes = DevicePayload(EccCommand_read(FALSE, a), regs, digestBuf),
                                   !.readAt = MainPhase]
    /\ UNCHANGED <<pc, call, stage, execVars, result, trace, regs, digestBuf,
                   regs0, lastSet, faults, cap>>

\* the second controller's set_slot_config: it merges and its write is executed
rival_write ==
    /\ rival.pc = "read"
    /\ LET a == Address_slot_config(rival.slot) IN
         regs' = DeviceRegsAfter(
                     EccCommand_write(a, NewBytes(rival.slot, rival.bytes, rival.v)), regs)
    /\ rival' = [rival EXCEPT !.pc = "done", !.writeAt = MainPhase]
    /\ UNCHANGED <<pc, call, stage, execVars, result, trace, digestBuf,
                   regs0, lastSet, faults, cap>>

\* the slots the two controllers are asked to configure
RaceSlots == {2, 3}

\* This controller has entered set_slot_config and sent nothing yet; the second
\* controller has not started.  A transport that can fail every attempt is
\* explored without the second controller.
InitRace ==
    /\ pc = "loop"
    /\ \E slot \in RaceSlots :
         /\ call = [op |-> "set_slot_config", slot |-> slot, v |-> 4660, data |-> << >>, zone |-> ""]
         /\ cmd = EccCommand_read(FALSE, Address_slot_config(slot))
         /\ \/ /\ rival = [pc |-> "idle", slot |-> Paired(slot), v |-> 65280,
                           bytes |-> << >>, readAt |-> "", writeAt |-> ""]
               /\ cap = MaxFaults
            \/ /\ slot = 2
               /\ rival = NoRival
               /\ cap = CMD_RETRIES
    /\ stage = "read"
    /\ sleep = TRUE
    /\ retries = CMD_RETRIES
    /\ retry = 0
    /\ buf = << >>
    /\ result = NoResult
    /\ trace = << >>
    /\ regs = InitRegs(0)
    /\ digestBuf = << >>
    /\ regs0 = regs
    /\ lastSet = NoSet
    /\ faults = 0

NextRace ==
    \/ send_wake
    \/ loop_exit
    \/ send_recv_buf
    \/ handle_response
    \/ set_config_read_ret
    \/ set_config_write_ret
    \/ rival_read
    \/ rival_write

SpecRace == InitRace /\ [][NextRace]_vars

\* ------------------------------------------------------------ trace views
IsFail(e) == e.ev = "xfer" /\ ~e.ok

IsData(e) == e.ev = "xfer" /\ e.ok /\ e.resp.kind = "Data"

IsRecoverableErr(e) ==
    e.ev = "xfer" /\ e.ok /\ e.resp.kind = "Error" /\ e.resp.code \in RecoverableCodes

IsFatalErr(e) ==
    e.ev = "xfer" /\ e.ok /\ e.resp.kind = "Error" /\ e.resp.code \in FatalCodes

IsFailedWake(e) == e.ev = "wake" /\ ~e.ok

\* the position in t of its k-th send/receive
RECURSIVE XferPos(_, _, _)
XferPos(t, k, from) ==
    IF from > Len(t) THEN 0
    ELSE IF t[from].ev = "xfer"
           THEN (IF k = 1 THEN from ELSE XferPos(t, k - 1, from + 1))
           ELSE XferPos(t, k, from + 1)

\* nothing but sleep signals follows the k-th send/receive
NothingSentAfter(t, k) ==
    \A j \in (XferPos(t, k, 1) + 1) .. Len(t) : t[j].ev = "sleep"

Last(t) == t[Len(t)]

\* ------------------------------------------------------------------ C3
\* C3 (as claimed): when the device answers the last attempt of the budget
\* with a recoverable error, send_command_retries returns the device error
\* with that code, not Timeout.
C3_ExhaustedRecoverableIsDeviceError ==
    LET X == Xfers(trace) IN
    (pc = "ret" /\ Len(X) = retries /\ IsRecoverableErr(X[retries]))
        => result = Error_ecc(X[retries].resp.code)

\* ------------------------------------------------------------------ C4
\* C4: if send/receive fails on every attempt, no Data result or device error
\* is produced, and the call returns Timeout after exactly `retries` attempts.
C4_AllTransportFailuresGiveTimeout ==
    LET X == Xfers(trace) IN
    (\A i \in 1 .. Len(X) : IsFail(X[i])) =>
        /\ ~result.ok
        /\ result.err # "Ecc"
        /\ (pc = "ret" /\ \A j \in 1 .. Len(trace) : ~IsFailedWake(trace[j])) =>
               (result = Error_timeout /\ Len(X) = retries)

C4_Witness ==
    LET X == Xfers(trace) IN
    /\ pc = "ret"
    /\ retries = CMD_RETRIES
    /\ Len(X) = CMD_RETRIES
    /\ \A i \in 1 .. Len(X) : IsFail(X[i])
    /\ result = Error_timeout

\* ------------------------------------------------------------------ C5
\* C5: recoverable errors on attempts 1..N-1 and Data on attempt N make the
\* call return that payload, and attempt N is the last one.
C5_RetryUntilData ==
    LET X == Xfers(trace) IN
    \A n \in 1 .. Len(X) :
        (IsData(X[n]) /\ \A i \in 1 .. (n - 1) : IsRecoverableErr(X[i])) =>
            /\ n <= retries
            /\ Len(X) = n
            /\ NothingSentAfter(trace, n)
            /\ pc \in {"handle", "ret"}
            /\ pc = "ret" => result = Ok(X[n].resp.data)

C5_Witness ==
    LET X == Xfers(trace) IN
    /\ pc = "ret"
    /\ Len(X) = CMD_RETRIES
    /\ IsData(X[CMD_RETRIES])
    /\ \A i \in 1 .. (CMD_RETRIES - 1) : IsRecoverableErr(X[i])
    /\ result = Ok(X[CMD_RETRIES].resp.data)

\* ------------------------------------------------------------------ C6
\* C6: a fatal device error on attempt k ends the call with that device
\* error; no further wake or send/receive follows, whatever budget remains.
C6_FatalErrorEndsCall ==
    LET X == Xfers(trace) IN
    \A k \in 1 .. Len(X) :
        IsFatalErr(X[k]) =>
            /\ Len(X) = k
            /\ NothingSentAfter(trace, k)
            /\ pc \in {"handle", "ret"}
            /\ pc = "ret" => result = Error_ecc(X[k].resp.code)

C6_Witness ==
    LET X == Xfers(trace) IN
    /\ pc = "ret"
    /\ retries = CMD_RETRIES
    /\ Len(X) = 2
    /\ IsRecoverableErr(X[1])
    /\ IsFatalErr(X[2])
    /\ result = Error_ecc(X[2].resp.code)

\* ------------------------------------------------------------------ C10
\* C10 (as claimed): a failure of the wake signal, like one of send/receive,
\* is swallowed and retried; the caller sees no transport error but Timeout,
\* and Timeout only after the final attempt.
C10_AllTransportFailuresSwallowed ==
    LET X == Xfers(trace) IN
    pc = "ret" =>
        /\ result.err # "Transport"
        /\ (Len(trace) > 0 /\ (IsFailedWake(Last(trace)) \/ IsFail(Last(trace)))) =>
               result = Error_timeout

\* C10 (amended): a send/receive failure is swallowed and the attempt retried
\* while attempts remain, and Timeout is returned only when the final attempt
\* of the budget has failed; a wake failure is not retried: it ends the call
\* at once with the transport's own error.
C10_SendRecvFailuresSwallowed ==
    LET X == Xfers(trace) IN
    /\ \A j \in 1 .. Len(trace) :
          IsFailedWake(trace[j]) =>
              j = Len(trace) /\ pc = "ret" /\ result = Error_transport
    /\ (pc = "ret" /\ result.err = "Transport") => IsFailedWake(Last(trace))
    /\ (pc = "ret" /\ IsFail(Last(trace))) =>
           (Len(X) = retries /\ result = Error_timeout)
    /\ (pc = "ret" /\ result = Error_timeout) =>
           (Len(X) = retries /\ (IsFail(X[retries]) \/ IsRecoverableErr(X[retries])))
    /\ \A i \in 1 .. Len(X) : (IsFail(X[i]) /\ i < retries) =>
           (Len(X) > i \/ pc \in {"loop", "xfer"} \/ IsFailedWake(Last(trace)))

C10_Witness ==
    LET X == Xfers(trace) IN
    /\ pc = "ret"
    /\ retries = CMD_RETRIES
    /\ Len(X) = 2
    /\ IsFail(X[1])
    /\ IsFail(X[2])
    /\ IsFailedWake(Last(trace))
    /\ result = Error_transport

\* ------------------------------------------------------------------ C1
\* C1: after a successful set_slot_config(slot, v) (set_key_config), a
\* successful get_slot_config(slot) (get_key_config) of the same slot
\* returns v, for every slot in 0..15.
C1_SetThenGetRoundTrip ==
    (/\ pc = "done"
     /\ call.op \in GetOps
     /\ result.ok
     /\ lastSet # NoSet
     /\ lastSet.bank = BankOf(call.op)
     /\ lastSet.slot = call.slot)
        => result.val = <<lastSet.v>>

C1_Witness ==
    /\ pc = "done"
    /\ call.op = "get_key_config"
    /\ result.ok
    /\ lastSet = [bank |-> "key", slot |-> MAX_SLOT, v |-> 65280]
    /\ call.slot = MAX_SLOT
    /\ result.val = <<65280>>

\* ------------------------------------------------------------------ C2
\* C2: a successful set_slot_config(k, v) (set_key_config) leaves in the
\* register of k the value v, little-endian, in the half k & 1 selects, and
\* in the other half the bytes the register held before the call; that image
\* is what the last write command carried, and no other register changes.
C2_SetReplacesOnlySelectedHalf ==
    (pc = "done" /\ call.op \in SetOps /\ result.ok) =>
        LET b == BankOf(call.op)
            i == call.slot \div 2
            old == regs0[b][i]
            lo == call.v % 256
            hi == call.v \div 256
            image == IF call.slot % 2 = 0 THEN <<lo, hi, old[3], old[4]>>
                                          ELSE <<old[1], old[2], lo, hi>>
            X == Xfers(trace)
        IN  /\ regs[b][i] = image
            /\ Last(X).cmd.op = "write"
            /\ Last(X).cmd.data = image
            /\ \A bb \in Banks, ii \in RegIdx :
                   (bb # b \/ ii # i) => regs[bb][ii] = regs0[bb][ii]

C2_Witness ==
    /\ pc = "done"
    /\ call.op = "set_slot_config"
    /\ call.slot = 7
    /\ call.v = 4660
    /\ result.ok
    /\ regs["slot"][3] = <<regs0["slot"][3][1], regs0["slot"][3][2], 52, 18>>

\* ------------------------------------------------------------------ C7
\* C7: a successful sign(slot, data) has made exactly three exchanges: random,
\* nonce load of the SHA-256 digest of data into the message-digest buffer,
\* sign of that buffer with the slot; each is preceded by a wake, and the only
\* sleep signal comes after the third.
C7_SignThreeExchangesNoSleepBetween ==
    (pc = "done" /\ call.op = "sign" /\ result.ok) =>
        /\ [i \in 1 .. Len(trace) |-> trace[i].ev]
               = <<"wake", "xfer", "wake", "xfer", "wake", "xfer", "sleep">>
        /\ [i \in 1 .. Len(Xfers(trace)) |-> Xfers(trace)[i].cmd]
               = << EccCommand_random,
                    EccCommand_nonce("MessageDigest", Sha256(call.data)),
                    EccCommand_sign("MessageDigest", call.slot) >>
        /\ \A i \in 1 .. Len(Xfers(trace)) : IsData(Xfers(trace)[i])

C7_Witness ==
    /\ pc = "done"
    /\ call.op = "sign"
    /\ call.data = <<1, 2>>
    /\ call.slot = 1
    /\ result.ok
    /\ Len(Xfers(trace)) = 3

\* ------------------------------------------------------------------ C8
\* C8: in sign every step is sent at most once and only after the steps
\* before it returned Data; once a step has failed (wake, transport, decode
\* or device error) nothing more is sent, and the call ends with an error.
SignSteps(c) ==
    << EccCommand_random,
       EccCommand_nonce("MessageDigest", Sha256(c.data)),
       EccCommand_sign("MessageDigest", c.slot) >>

StepFailure(e) == IsFailedWake(e) \/ (e.ev = "xfer" /\ ~IsData(e))

C8_SignAbortsOnFirstFailure ==
    call.op = "sign" =>
        LET X == Xfers(trace) IN
        /\ Len(X) <= 3
        /\ \A i \in 1 .. Len(X) : X[i].cmd = SignSteps(call)[i]
        /\ \A i \in 1 .. (Len(X) - 1) : IsData(X[i])
        /\ \A j \in 1 .. Len(trace) :
               StepFailure(trace[j]) =>
                   /\ \A k \in (j + 1) .. Len(trace) : trace[k].ev = "sleep"
                   /\ pc \in {"handle", "loop", "ret", "done"}
                   /\ pc = "done" => ~result.ok
        /\ (pc = "done" /\ result.ok) => (Len(X) = 3 /\ IsData(X[3]))

C8_Witness ==
    LET X == Xfers(trace) IN
    /\ pc = "done"
    /\ call.op = "sign"
    /\ ~result.ok
    /\ Len(X) = 2
    /\ IsData(X[1])
    /\ IsFatalErr(X[2])

\* ------------------------------------------------------------------ C9
\* C9: get_slot_config, set_slot_config, get_key_config and set_key_config
\* reject a slot above 15 with an error before any transport activity: no
\* wake, send/receive or sleep, and the device is left as it was.
C9_InvalidSlotRejectedBeforeIO ==
    (call.op \in (GetOps \cup SetOps) /\ call.slot > MAX_SLOT) =>
        /\ pc = "done"
        /\ result = Error_invalid_address
        /\ trace = << >>
        /\ regs = regs0

C9_Witness ==
    /\ pc = "done"
    /\ call.op = "set_key_config"
    /\ call.slot = MAX_SLOT + 1
    /\ result = Error_invalid_address
    /\ trace = << >>

\* ------------------------------------------------------------------ C11
\* C11: when the bytes received on an attempt do not decode, the call returns
\* the decode failure at once: that exchange is the last transport event,
\* whatever budget remains, and the result is neither Timeout nor a device
\* error.
IsGarbled(e) == e.ev = "xfer" /\ e.ok /\ e.resp.kind = "Garbled"

C11_DecodeFailureNotRetried ==
    LET X == Xfers(trace) IN
    \A k \in 1 .. Len(X) :
        IsGarbled(X[k]) =>
            /\ Len(X) = k
            /\ XferPos(trace, k, 1) = Len(trace)
            /\ pc \in {"handle", "ret"}
            /\ pc = "ret" => result = Error_decode

C11_Witness ==
    LET X == Xfers(trace) IN
    /\ pc = "ret"
    /\ retries = CMD_RETRIES
    /\ Len(X) = 2
    /\ IsFail(X[1])
    /\ IsGarbled(X[2])
    /\ result = Error_decode

\* ------------------------------------------------------------------ C15
\* C15 (as claimed): a sleep signal is sent only after a decoded Data response
\* and only when the sleep flag is set.
C15_SleepOnlyAfterData ==
    \A j \in 1 .. Len(trace) :
        trace[j].ev = "sleep" => (sleep /\ j > 1 /\ IsData(trace[j - 1]))

\* C15 (amended): a sleep signal is sent only right after a response that
\* decoded, Data or Error (recoverable or fatal), and only when the sleep flag
\* is set: never after a transport failure, a decode failure or a wake, and
\* never when the flag is clear.
C15_SleepOnlyAfterDecodedResponse ==
    \A j \in 1 .. Len(trace) :
        trace[j].ev = "sleep" =>
            /\ sleep
            /\ j > 1
            /\ trace[j - 1].ev = "xfer"
            /\ trace[j - 1].ok
            /\ trace[j - 1].resp.kind \in {"Data", "Error"}

C15_Witness ==
    /\ pc = "ret"
    /\ sleep
    /\ Len(trace) = 6
    /\ IsRecoverableErr(trace[2])
    /\ trace[3].ev = "sleep"
    /\ IsFatalErr(trace[5])
    /\ trace[6].ev = "sleep"

\* ------------------------------------------------------------------ C16
\* C16: a call with retry budget r never makes more than r wakes or
\* send/receive attempts, and it returns.
IsWake(e) == e.ev = "wake"

C16_AtMostBudgetAttempts ==
    /\ [](/\ Len(Xfers(trace)) <= retries
          /\ Len(SelectSeq(trace, IsWake)) <= retries)
    /\ <>(pc = "ret")

C16_Witness ==
    /\ pc = "ret"
    /\ retries = CMD_RETRIES
    /\ Len(Xfers(trace)) = CMD_RETRIES
    /\ IsRecoverableErr(Last(trace))

\* ------------------------------------------------------------------ C17
\* C17: the frame handed to the transport on every attempt is the flag byte
\* followed by the encoded command and nothing else, also on an attempt that
\* follows a response left in the buffer.
C17_FrameIsFlagThenCommand ==
    /\ \A j \in 1 .. Len(trace) :
           trace[j].ev = "xfer" =>
               (trace[j].cmd = cmd /\ trace[j].frame = <<FlagItem, CmdItem(cmd)>>)
    /\ pc = "xfer" => buf = <<FlagItem, CmdItem(cmd)>>

C17_Witness ==
    LET X == Xfers(trace) IN
    /\ Len(X) = 3
    /\ IsRecoverableErr(X[1])
    /\ IsFail(X[2])
    /\ IsData(X[3])
    /\ X[3].frame = <<FlagItem, CmdItem(cmd)>>

\* ------------------------------------------------------------------ C18
\* C18: every send/receive is immediately preceded by a successful wake of
\* the same attempt, so no frame follows a sleep signal without a wake
\* between them.
C18_WakeBeforeEverySend ==
    \A j \in 1 .. Len(trace) :
        trace[j].ev = "xfer" => (j > 1 /\ trace[j - 1] = WakeEv(TRUE))

C18_Witness ==
    /\ Len(trace) >= 5
    /\ IsRecoverableErr(trace[2])
    /\ trace[3].ev = "sleep"
    /\ trace[4] = WakeEv(TRUE)
    /\ trace[5].ev = "xfer"


\* C19: when the read of set_slot_config or set_key_config fails (timeout,
\* decode failure, device error or failed wake), the call has returned that
\* error, no write command was ever sent, and every register is as it was
\* when the call began.
C19_FailedReadSendsNoWrite ==
    (/\ pc = "done"
     /\ call.op \in SetOps
     /\ trace # << >>
     /\ \A j \in 1 .. Len(trace) : ~(IsData(trace[j]) /\ trace[j].cmd.op = "read")) =>
        /\ ~result.ok
        /\ result \in {Error_timeout, Error_decode} \cup {Error_ecc(c) : c \in ErrCodes}
                      \cup {Error_transport}
        /\ \A j \in 1 .. Len(trace) : IsXfer(trace[j]) => trace[j].cmd.op = "read"
        /\ regs = regs0

\* a set call whose read timed out after CMD_RETRIES failed exchanges
C19_Witness ==
    /\ pc = "done"
    /\ call.op \in SetOps
    /\ stage = "read"
    /\ result = Error_timeout
    /\ Len(Xfers(trace)) = CMD_RETRIES
    /\ \A j \in 1 .. Len(trace) : IsXfer(trace[j]) => IsFail(trace[j])
    /\ regs = regs0

\* C20: when a public operation has returned success, the last signal sent to
\* the transport is a sleep, and it directly follows the final exchange, which
\* was answered with data.
C20_SuccessEndsAsleep ==
    (pc = "done" /\ result.ok) =>
        /\ Len(trace) >= 2
        /\ Last(trace) = SleepEv
        /\ IsData(trace[Len(trace) - 1])

\* a successful sign: three exchanges, then the one sleep
C20_Witness ==
    /\ pc = "done"
    /\ call.op = "sign"
    /\ result.ok
    /\ Len(Xfers(trace)) = 3
    /\ Last(trace) = SleepEv


\* byte k (from 0) of the configuration zone as it was when the call began
ConfigByte0(k) == regs0["config"][k \div 4][(k % 4) + 1]

\* C12: a successful get_locked has sent nothing but 4-byte reads of the
\* configuration word at block 2, offset 5; for Zone::Data it answers false
\* exactly when byte 2 of that word is 0x55, for Zone::Config exactly when byte
\* 3 is 0x55, whatever the other lock byte and bytes 0 and 1 hold.
C12_LockedIffByteNotSentinel ==
    (pc = "done" /\ call.op = "get_locked" /\ result.ok) =>
        /\ \A j \in 1 .. Len(trace) :
             IsXfer(trace[j]) =>
               /\ trace[j].cmd.op = "read"
               /\ trace[j].cmd.p = 0
               /\ trace[j].cmd.bank = "config"
               /\ trace[j].cmd.idx = 8 * 2 + 5
        /\ call.zone = "Data" => (result.val <=> ConfigByte0(4 * 21 + 2) # 85)
        /\ call.zone = "Config" => (result.val <=> ConfigByte0(4 * 21 + 3) # 85)

\* get_locked(Zone::Data) answers false while the Config byte says locked and
\* bytes 0 and 1 are not zero
C12_Witness ==
    /\ pc = "done"
    /\ call.op = "get_locked"
    /\ call.zone = "Data"
    /\ result.ok
    /\ result.val = FALSE
    /\ regs0["config"][21] = <<85, 7, 85, 170>>

\* C13: a successful get_serial has sent nothing but 32-byte reads at block 0,
\* offset 0 of the configuration zone, and returns 9 bytes: bytes 0..3 and
\* 8..12 of that window; so 0x01, 0x23 at bytes 0, 1 and 0xEE at byte 12 of
\* the window appear at bytes 0, 1 and 8 of the result.
C13_SerialIsNineWindowBytes ==
    (pc = "done" /\ call.op = "get_serial" /\ result.ok) =>
        /\ \A j \in 1 .. Len(trace) :
             IsXfer(trace[j]) =>
               /\ trace[j].cmd.op = "read"
               /\ trace[j].cmd.p = 1
               /\ trace[j].cmd.bank = "config"
               /\ trace[j].cmd.idx = 0
        /\ Len(result.val) = 9
        /\ \A i \in 0 .. 3 : result.val[i + 1] = ConfigByte0(i)
        /\ \A i \in 4 .. 8 : result.val[i + 1] = ConfigByte0(i + 4)
        /\ (ConfigByte0(0) = 1 /\ ConfigByte0(1) = 35 /\ ConfigByte0(12) = 238) =>
             (result.val[1] = 1 /\ result.val[2] = 35 /\ result.val[9] = 238)

\* a serial read from a zone laid out as the device lays it out
C13_Witness ==
    /\ pc = "done"
    /\ call.op = "get_serial"
    /\ result.ok
    /\ ConfigByte0(0) = 1
    /\ ConfigByte0(1) = 35
    /\ ConfigByte0(12) = 238
    /\ result.val = <<1, 35, 33, 34, 40, 41, 42, 43, 238>>


\* the register shared by the slots of the two controllers
SharedWord(rg) == rg["slot"][call.slot \div 2]

\* the second controller's whole call lies before or after this controller's
\* read and write
Serialized == rival.writeAt = "before" \/ rival.readAt = "after"

\* each controller's read was answered before either write was executed
BothReadsBeforeBothWrites ==
    rival.readAt \in {"before", "mid"} /\ rival.writeAt \in {"mid", "after"}

\* C14: two set_slot_config calls on paired slots, both successful and with no
\* retried fault.  When the calls are serialized the register holds both
\* written values.  When both reads precede both writes, the controller that
\* writes last puts back the half it read before the other write, so the other
\* controller's value is lost.
C14_SerializedKeepsBothOverlapLosesOne ==
    (/\ pc = "done"
     /\ call.op = "set_slot_config"
     /\ result.ok
     /\ faults = 0
     /\ rival.pc = "done") =>
        LET w == SharedWord(regs)
            w0 == SharedWord(regs0)
            mine == get_u16_le(SelectHalf(call.slot, w))
            theirs == get_u16_le(SelectHalf(rival.slot, w))
        IN  /\ Serialized \/ BothReadsBeforeBothWrites
            /\ Serialized => (mine = call.v /\ theirs = rival.v)
            /\ (BothReadsBeforeBothWrites /\ rival.writeAt = "mid") =>
                 /\ mine = call.v
                 /\ theirs = get_u16_le(SelectHalf(rival.slot, w0))
                 /\ theirs # rival.v
            /\ (BothReadsBeforeBothWrites /\ rival.writeAt = "after") =>
                 /\ theirs = rival.v
                 /\ mine = get_u16_le(SelectHalf(call.slot, w0))
                 /\ mine # call.v

\* a lost update: both calls succeeded, the second controller read before this
\* controller wrote and wrote after it, and this controller's value is gone
C14_Witness ==
    /\ pc = "done"
    /\ call.op = "set_slot_config"
    /\ result.ok
    /\ faults = 0
    /\ rival.pc = "done"
    /\ rival.readAt = "mid"
    /\ rival.writeAt = "after"
    /\ get_u16_le(SelectHalf(call.slot, SharedWord(regs))) # call.v
    /\ get_u16_le(SelectHalf(rival.slot, SharedWord(regs))) = rival.v

====
